---- MODULE Spec2Model ----
(***************************************************************************)
(* A model of PenguinV/Library/cuda/image_function_cuda.cu: the launch     *)
(* configuration helper, the element-wise kernels, the parameter           *)
(* validation, the operation facade (allocating and in-place forms) and    *)
(* the host <-> device Convert pair.                                       *)
(*                                                                         *)
(* uint32_t values are kept as two 16-bit limbs [hi, lo] so that the       *)
(* 32-bit wrap-around of the source is computed and not assumed away.      *)
(***************************************************************************)
EXTENDS Integers, Sequences, FiniteSets

VARIABLES
    kpPc, kpSize, threadsPerBlock, blocksPerGrid,  \* one getKernelParameters call
    fImages, fPc, fCall, fErr, fAllocs, fLaunches, \* one call of the operation facade
    dev, dPc, dCall, dErr, dGrid, dBefore,         \* a call on device buffers with data
    tPc, fillI, value, tableWriters, tableReads,   \* the threads of its kernel
    host, device, cPc, cv, cCopies, cLast          \* the Convert pair at work

kpVars == <<kpPc, kpSize, threadsPerBlock, blocksPerGrid>>
fVars  == <<fImages, fPc, fCall, fErr, fAllocs, fLaunches>>
dVars  == <<dev, dPc, dCall, dErr, dGrid, dBefore>>
tVars  == <<tPc, fillI, value, tableWriters, tableReads>>

cVars  == <<host, device, cPc, cv, cCopies, cLast>>

vars == <<kpVars, fVars, dVars, tVars, cVars>>

----------------------------------------------------------------------------
(* uint32_t arithmetic                                                      *)

Limb == 256 * 256

U32(hi, lo) == [hi |-> hi, lo |-> lo]

\* a small non-negative int converted to uint32_t
FromInt(k) == U32((k \div Limb) % Limb, k % Limb)

\* a uint32_t below 2^31 converted to int
ToInt(x) == x.hi * Limb + x.lo

LtU32(x, y) == x.hi < y.hi \/ (x.hi = y.hi /\ x.lo < y.lo)

LeU32(x, y) == x = y \/ LtU32(x, y)

\* x + y modulo 2^32
AddU32(x, y) ==
    LET lo == x.lo + y.lo
        hi == x.hi + y.hi + (lo \div Limb)
    IN  U32(hi % Limb, lo % Limb)

\* x - y modulo 2^32
SubU32(x, y) ==
    LET lo == x.lo - y.lo
        hi == x.hi - y.hi - (IF lo < 0 THEN 1 ELSE 0)
    IN  U32((hi + Limb) % Limb, (lo + Limb) % Limb)

\* x / d for 0 < d <= 2^15, unsigned division
DivU32(x, d) ==
    LET r == x.hi % d
    IN  U32(x.hi \div d, (r * Limb + x.lo) \div d)

\* the full product a * b of two 16-bit limbs as [hi, lo]
MulLimb(a, b) ==
    LET p1 == (a \div 256) * b
        p0 == (a % 256) * b
        t  == (p1 % 256) * 256 + p0
    IN  U32((p1 \div 256) + (t \div Limb), t % Limb)

\* the 64-bit product of two uint32_t values as four limbs, least first
Mul64(x, y) ==
    LET ll == MulLimb(x.lo, y.lo)
        lh == MulLimb(x.lo, y.hi)
        hl == MulLimb(x.hi, y.lo)
        hh == MulLimb(x.hi, y.hi)
        c1 == ll.hi + lh.lo + hl.lo
        c2 == (c1 \div Limb) + lh.hi + hl.hi + hh.lo
        c3 == (c2 \div Limb) + hh.hi
    IN  <<ll.lo, c1 % Limb, c2 % Limb, c3>>

\* x * y modulo 2^32
MulU32(x, y) == LET p == Mul64(x, y) IN U32(p[2], p[1])

----------------------------------------------------------------------------
(* getKernelParameters                                                      *)

getKernelParameters(size) ==
    IF LtU32(size, FromInt(256))
    THEN [threadsPerBlock |-> ToInt(size), blocksPerGrid |-> 1]
    ELSE LET tpb == 256
         IN  [threadsPerBlock |-> tpb,
              blocksPerGrid   |->
                  ToInt(DivU32(SubU32(AddU32(size, FromInt(tpb)), FromInt(1)), tpb))]

\* element counts the helper is applied to
SizeHi == {0, 1, 2, 255, 256, 32767, 32768, 65534, 65535}
SizeLo == {0, 1, 2, 254, 255, 256, 257, 511, 512, 513, 34464, 65279, 65280,
           65281, 65534, 65535}
SizeSamples == {U32(h, l) : h \in SizeHi, l \in SizeLo}

KPOff ==
    /\ kpPc = "off"
    /\ kpSize = U32(0, 0)
    /\ threadsPerBlock = 1
    /\ blocksPerGrid = 1

KPInit ==
    /\ kpPc = "call"
    /\ kpSize \in SizeSamples
    /\ threadsPerBlock = 1
    /\ blocksPerGrid = 1

KPCall ==
    /\ kpPc = "call"
    /\ UNCHANGED <<fVars, dVars, tVars, cVars>>
    /\ LET r == getKernelParameters(kpSize)
       IN  /\ threadsPerBlock' = r.threadsPerBlock
           /\ blocksPerGrid' = r.blocksPerGrid
    /\ kpPc' = "done"
    /\ UNCHANGED kpSize

FOff ==
    /\ fImages = {}
    /\ fPc = "off"
    /\ fCall = [op |-> "none"]
    /\ fErr = "none"
    /\ fAllocs = 0
    /\ fLaunches = <<>>

DOff ==
    /\ dev = <<>>
    /\ dPc = "off"
    /\ dCall = [op |-> "none"]
    /\ dErr = "none"
    /\ dGrid = [kernel |-> "none"]
    /\ dBefore = <<>>
    /\ tPc = <<>>
    /\ fillI = <<>>
    /\ value = <<>>
    /\ tableWriters = {}
    /\ tableReads = {}

COff ==
    /\ host = <<>>
    /\ device = <<>>
    /\ cPc = "off"
    /\ cv = [dir |-> "none"]
    /\ cCopies = <<>>
    /\ cLast = <<>>

InitKP == KPInit /\ FOff /\ DOff /\ COff

NextKP == KPCall

SpecKP == InitKP /\ [][NextKP]_vars

\* ceil(n / 256) over the integers
CeilDiv256(n) == n.hi * 256 + ((n.lo + 255) \div 256)

\* C1: for every uint32_t element count n, getKernelParameters(n) returns
\* threadsPerBlock <= 256 with threadsPerBlock * blocksPerGrid >= n; it is
\* (n, 1) for n < 256 and (256, ceil(n / 256)) for n >= 256.
C1_Claim ==
    kpPc = "done" =>
        /\ threadsPerBlock <= 256
        /\ LeU32(kpSize, MulU32(FromInt(threadsPerBlock), FromInt(blocksPerGrid)))
        /\ LtU32(kpSize, FromInt(256)) =>
               threadsPerBlock = ToInt(kpSize) /\ blocksPerGrid = 1
        /\ ~LtU32(kpSize, FromInt(256)) =>
               threadsPerBlock = 256 /\ blocksPerGrid = CeilDiv256(kpSize)

----------------------------------------------------------------------------
(* Device images, parameter validation and the operation facade             *)

Zero == U32(0, 0)

\* ImageCuda( width, height ): a device image handle of the given size
ImageCuda(width, height) == [width |-> width, height |-> height]

\* BitmapImageCuda::empty()
empty(image) == image.width = Zero \/ image.height = Zero

\* the messages of the imageException thrown
BadParameters == "Bad input parameters in image function"
LaunchFailed  == "Failed to launch CUDA kernel"
AllocationFailure == "Cannot allocate a memory for CUDA"
NoError == "none"

\* ParameterValidation( image1 ): TRUE when it returns, FALSE when it throws
ParameterValidation1(image1) == ~empty(image1)

\* a validation that forgets to compare the heights
ParameterValidation2_WidthOnly(image1, image2) ==
    ~( empty(image1) \/ empty(image2) \/ image1.width # image2.width )

\* ParameterValidation( image1, image2 )
ParameterValidation2(image1, image2) ==
    ~( empty(image1) \/ empty(image2) \/ image1.width # image2.width
       \/ image1.height # image2.height )

\* ParameterValidation( image1, image2, image3 )
ParameterValidation3(image1, image2, image3) ==
    ~( empty(image1) \/ empty(image2) \/ empty(image3)
       \/ image1.width # image2.width \/ image1.height # image2.height
       \/ image1.width # image3.width \/ image1.height # image3.height )

BinaryOps == {"absoluteDifference", "bitwiseAnd", "bitwiseOr", "bitwiseXor",
              "maximum", "minimum", "subtract"}

\* kernel<<<blocksPerGrid, threadsPerBlock>>>( ..., size ) followed by
\* cudaGetLastError(): the runtime rejects an empty grid or an empty block,
\* and may fail for reasons of its own (runtimeOk = FALSE)
KernelLaunch(kernel, size, runtimeOk) ==
    LET kp == getKernelParameters(size)
    IN  [kernel          |-> kernel,
         blocksPerGrid   |-> kp.blocksPerGrid,
         threadsPerBlock |-> kp.threadsPerBlock,
         size            |-> size,
         ok              |-> kp.blocksPerGrid >= 1 /\ kp.threadsPerBlock >= 1
                             /\ runtimeOk]

Outcome(err, allocs, launches) ==
    [err |-> err, allocs |-> allocs, launches |-> launches]

\* the body shared by every in-place form once its validation has passed
LaunchOn(kernel, out, runtimeOk) ==
    LET l == KernelLaunch(kernel, MulU32(out.width, out.height), runtimeOk)
    IN  Outcome(IF l.ok THEN NoError ELSE LaunchFailed, 0, <<l>>)

\* void Op( in1, in2, out ) for the seven binary operations
BinaryInPlace(op, in1, in2, out, runtimeOk) ==
    IF ~ParameterValidation3(in1, in2, out)
    THEN Outcome(BadParameters, 0, <<>>)
    ELSE LaunchOn(op, out, runtimeOk)

\* ImageCuda Op( in1, in2 ) for the seven binary operations
BinaryAllocating(op, in1, in2, allocFails, runtimeOk) ==
    IF ~ParameterValidation2(in1, in2)
    THEN Outcome(BadParameters, 0, <<>>)
    ELSE IF allocFails
    THEN Outcome(AllocationFailure, 1, <<>>)
    ELSE LET r == BinaryInPlace(op, in1, in2,
                                ImageCuda(in1.width, in1.height), runtimeOk)
         IN  Outcome(r.err, 1 + r.allocs, r.launches)

\* void Invert( in, out )
InvertInPlace(in, out, runtimeOk) ==
    IF ~ParameterValidation2(in, out)
    THEN Outcome(BadParameters, 0, <<>>)
    ELSE LaunchOn("invert", out, runtimeOk)

\* ImageCuda Invert( in )
InvertAllocating(in, allocFails, runtimeOk) ==
    IF ~ParameterValidation1(in)
    THEN Outcome(BadParameters, 0, <<>>)
    ELSE IF allocFails
    THEN Outcome(AllocationFailure, 1, <<>>)
    ELSE LET r == InvertInPlace(in, ImageCuda(in.width, in.height), runtimeOk)
         IN  Outcome(r.err, 1 + r.allocs, r.launches)

\* void GammaCorrection( in, out, a, gamma )
GammaCorrectionInPlace(in, out, a, gamma, runtimeOk) ==
    IF ~ParameterValidation2(in, out)
    THEN Outcome(BadParameters, 0, <<>>)
    ELSE IF a < 0 \/ gamma < 0
    THEN Outcome(BadParameters, 0, <<>>)
    ELSE LaunchOn("gammaCorrection", out, runtimeOk)

\* ImageCuda GammaCorrection( in, a, gamma )
GammaCorrectionAllocating(in, a, gamma, allocFails, runtimeOk) ==
    IF ~ParameterValidation1(in)
    THEN Outcome(BadParameters, 0, <<>>)
    ELSE IF allocFails
    THEN Outcome(AllocationFailure, 1, <<>>)
    ELSE LET r == GammaCorrectionInPlace(in, ImageCuda(in.width, in.height),
                                         a, gamma, runtimeOk)
         IN  Outcome(r.err, 1 + r.allocs, r.launches)

\* image sizes the facade is called with: empty, small, and sizes whose
\* pixel count reaches 2^32
WidthSamples  == {U32(0, 1), U32(0, 2), U32(0, 65535), U32(1, 0)}
HeightSamples == {U32(0, 1), U32(0, 2), U32(1, 0), U32(1, 1)}
ImageSamples ==
    {ImageCuda(Zero, Zero)}
    \cup {ImageCuda(w, h) : w \in WidthSamples, h \in HeightSamples}

\* values of a and gamma
ParamSamples == {-1, 0, 1}

Finish(r) ==
    /\ fPc' = IF r.err = NoError THEN "returned" ELSE "thrown"
    /\ fErr' = r.err
    /\ fAllocs' = r.allocs
    /\ fLaunches' = r.launches
    /\ UNCHANGED fImages

CallBinaryInPlace ==
    /\ fPc = "idle"
    /\ UNCHANGED <<kpVars, dVars, tVars, cVars>>
    /\ \E op \in BinaryOps, in1, in2, out \in fImages, rt \in BOOLEAN :
         /\ fCall' = [op |-> op, form |-> "inplace", in1 |-> in1, in2 |-> in2,
                      out |-> out, a |-> 0, gamma |-> 0]
         /\ Finish(BinaryInPlace(op, in1, in2, out, rt))

CallBinaryAllocating ==
    /\ fPc = "idle"
    /\ UNCHANGED <<kpVars, dVars, tVars, cVars>>
    /\ \E op \in BinaryOps, in1, in2 \in fImages, al, rt \in BOOLEAN :
         /\ fCall' = [op |-> op, form |-> "allocating", in1 |-> in1, in2 |-> in2,
                      out |-> ImageCuda(in1.width, in1.height), a |-> 0, gamma |-> 0]
         /\ Finish(BinaryAllocating(op, in1, in2, al, rt))

CallInvertInPlace ==
    /\ fPc = "idle"
    /\ UNCHANGED <<kpVars, dVars, tVars, cVars>>
    /\ \E in, out \in fImages, rt \in BOOLEAN :
         /\ fCall' = [op |-> "invert", form |-> "inplace", in1 |-> in, in2 |-> in,
                      out |-> out, a |-> 0, gamma |-> 0]
         /\ Finish(InvertInPlace(in, out, rt))

CallInvertAllocating ==
    /\ fPc = "idle"
    /\ UNCHANGED <<kpVars, dVars, tVars, cVars>>
    /\ \E in \in fImages, al, rt \in BOOLEAN :
         /\ fCall' = [op |-> "invert", form |-> "allocating", in1 |-> in, in2 |-> in,
                      out |-> ImageCuda(in.width, in.height), a |-> 0, gamma |-> 0]
         /\ Finish(InvertAllocating(in, al, rt))

CallGammaCorrectionInPlace ==
    /\ fPc = "idle"
    /\ UNCHANGED <<kpVars, dVars, tVars, cVars>>
    /\ \E in, out \in fImages, a, gamma \in ParamSamples, rt \in BOOLEAN :
         /\ fCall' = [op |-> "gammaCorrection", form |-> "inplace", in1 |-> in,
                      in2 |-> in, out |-> out, a |-> a, gamma |-> gamma]
         /\ Finish(GammaCorrectionInPlace(in, out, a, gamma, rt))

CallGammaCorrectionAllocating ==
    /\ fPc = "idle"
    /\ UNCHANGED <<kpVars, dVars, tVars, cVars>>
    /\ \E in \in fImages, a, gamma \in ParamSamples, al, rt \in BOOLEAN :
         /\ fCall' = [op |-> "gammaCorrection", form |-> "allocating", in1 |-> in,
                      in2 |-> in, out |-> ImageCuda(in.width, in.height),
                      a |-> a, gamma |-> gamma]
         /\ Finish(GammaCorrectionAllocating(in, a, gamma, al, rt))

FInit ==
    /\ fImages = ImageSamples
    /\ fPc = "idle"
    /\ fCall = [op |-> "none"]
    /\ fErr = NoError
    /\ fAllocs = 0
    /\ fLaunches = <<>>

InitFacade == FInit /\ KPOff /\ DOff /\ COff

NextFacade ==
    \/ CallBinaryInPlace
    \/ CallBinaryAllocating
    \/ CallInvertInPlace
    \/ CallInvertAllocating
    \/ CallGammaCorrectionInPlace
    \/ CallGammaCorrectionAllocating

SpecFacade == InitFacade /\ [][NextFacade]_vars

SameSize(x, y) == x.width = y.width /\ x.height = y.height

\* the images taking part in the call: the output only in the in-place form
Mismatch ==
    \/ ~SameSize(fCall.in1, fCall.in2)
    \/ fCall.form = "inplace" /\ ~SameSize(fCall.in1, fCall.out)

\* C2: a binary operation, in either form, whose participating images differ
\* in width or height throws the bad-parameters exception, having allocated
\* no device image and launched no kernel.
C2_MismatchFailsEarly ==
    (fPc # "idle" /\ fCall.op \in BinaryOps /\ Mismatch) =>
        /\ fPc = "thrown"
        /\ fErr = BadParameters
        /\ fAllocs = 0
        /\ fLaunches = <<>>

C2_Witness ==
    /\ fPc = "thrown"
    /\ fCall.op = "subtract"
    /\ fCall.form = "allocating"
    /\ ~empty(fCall.in1) /\ ~empty(fCall.in2)
    /\ fCall.in1.width = fCall.in2.width
    /\ fCall.in1.height # fCall.in2.height
    /\ fErr = BadParameters

\* C3: GammaCorrection, in either form, called with a < 0 or gamma < 0 on
\* otherwise valid images throws having allocated no device image and
\* launched no kernel.
C3_Claim ==
    ( /\ fPc # "idle"
      /\ fCall.op = "gammaCorrection"
      /\ ~empty(fCall.in1)
      /\ SameSize(fCall.in1, fCall.out)
      /\ (fCall.a < 0 \/ fCall.gamma < 0) ) =>
        /\ fPc = "thrown"
        /\ fErr = BadParameters
        /\ fAllocs = 0
        /\ fLaunches = <<>>

\* the pixel count width * height over the integers equals the uint32_t n
IsPixelCount(n, image) ==
    LET p == Mul64(image.width, image.height)
    IN  p[1] = n.lo /\ p[2] = n.hi /\ p[3] = 0 /\ p[4] = 0

\* C10: every kernel launch statement an in-place operation reaches has an
\* element count that is nonzero and is the pixel count of the output image,
\* and a configuration with at least one thread and one block.
C10_Claim ==
    \A i \in DOMAIN fLaunches :
        /\ fLaunches[i].size # Zero
        /\ IsPixelCount(fLaunches[i].size, fCall.out)
        /\ fLaunches[i].threadsPerBlock >= 1
        /\ fLaunches[i].blocksPerGrid >= 1

----------------------------------------------------------------------------
(* The kernels: what one thread computes for its element                    *)

RECURSIVE Bitwise(_, _, _, _)
\* the low k bits of x op y, op one of "and", "or", "xor"
Bitwise(op, x, y, k) ==
    IF k = 0 THEN 0
    ELSE LET p == x % 2
             q == y % 2
             bit == IF op = "and" THEN p * q
                    ELSE IF op = "or" THEN (IF p + q > 0 THEN 1 ELSE 0)
                    ELSE (p + q) % 2
         IN  bit + 2 * Bitwise(op, x \div 2, y \div 2, k - 1)

\* the conversion of an int result to uint8_t
ToU8(v) == v % 256

absoluteDifference(x, y) == IF x > y THEN ToU8(x - y) ELSE ToU8(y - x)

bitwiseAnd(x, y) == ToU8(Bitwise("and", x, y, 8))

bitwiseOr(x, y) == ToU8(Bitwise("or", x, y, 8))

bitwiseXor(x, y) == ToU8(Bitwise("xor", x, y, 8))

invert(x) == ToU8(-x - 1)

maximum(x, y) == IF x > y THEN x ELSE y

minimum(x, y) == IF x < y THEN x ELSE y

\* a subtraction that forgets to saturate
subtract_Wrapping(x, y) == ToU8(x - y)

subtract(x, y) == IF x > y THEN ToU8(x - y) ELSE 0

RECURSIVE Pow(_, _)
\* pow( i, gamma ) for a whole exponent
Pow(i, g) == IF g = 0 THEN 1 ELSE i * Pow(i, g - 1)

\* value[i] as the gammaCorrection kernel computes it, for whole a and gamma:
\* a * pow(i, gamma) + 0.5 truncated, or 255 when that is not below 256
gammaValue(i, a, gamma) ==
    LET data == a * Pow(i, gamma)
    IN  IF data < 256 THEN data ELSE 255

PlainKernels == BinaryOps \cup {"invert"}

KernelResult(kernel, x, y) ==
    CASE kernel = "absoluteDifference" -> absoluteDifference(x, y)
      [] kernel = "bitwiseAnd" -> bitwiseAnd(x, y)
      [] kernel = "bitwiseOr"  -> bitwiseOr(x, y)
      [] kernel = "bitwiseXor" -> bitwiseXor(x, y)
      [] kernel = "invert"     -> invert(x)
      [] kernel = "maximum"    -> maximum(x, y)
      [] kernel = "minimum"    -> minimum(x, y)
      [] kernel = "subtract"   -> subtract(x, y)

\* the threads <<blockIdx.x, threadIdx.x>> of a launch
Threads(grid) ==
    {<<b, t>> : b \in 0 .. grid.blocksPerGrid - 1,
                t \in 0 .. grid.threadsPerBlock - 1}

BlockThreads(grid, b) == {thr \in Threads(grid) : thr[1] = b}

\* uint32_t id = blockDim.x * blockIdx.x + threadIdx.x
ThreadId(thr, grid) ==
    AddU32(MulU32(FromInt(grid.threadsPerBlock), FromInt(thr[1])), FromInt(thr[2]))

\* a guard that lets the thread with id = size through
InRange_Inclusive(id, size) == LeU32(id, size)

\* if( id < size )
InRange(id, size) == LtU32(id, size)

\* the element indices the body of a kernel reads and writes in its buffers
ThreadAccess(thr, grid) ==
    IF InRange(ThreadId(thr, grid), grid.size) THEN {ThreadId(thr, grid)} ELSE {}

\* a launch that hands the first input over as the output
KernelArgs_OutIsIn1(call) == [in1 |-> call.in1, in2 |-> call.in2, out |-> call.in1]

\* the buffers a facade call hands to its kernel
KernelArgs(call) == [in1 |-> call.in1, in2 |-> call.in2, out |-> call.out]

----------------------------------------------------------------------------
(* A facade call on device buffers that hold pixels, and its kernel's threads *)

MaxPixels == 2

PixelSamples == {3, 250}

FillSamples == {0, 255}

DataParams == {-1, 2}

BufNames == {"A", "B"}

DataOps == BinaryOps \cup {"invert", "gammaCorrection"}

\* a width x 1 device image holding the pixels data
Buffer(data) ==
    [width |-> FromInt(Len(data)),
     height |-> FromInt(IF Len(data) = 0 THEN 0 ELSE 1),
     data |-> data]

InPlaceForm(op, in1, in2, out, a, gamma, runtimeOk) ==
    IF op \in BinaryOps THEN BinaryInPlace(op, in1, in2, out, runtimeOk)
    ELSE IF op = "invert" THEN InvertInPlace(in1, out, runtimeOk)
    ELSE GammaCorrectionInPlace(in1, out, a, gamma, runtimeOk)

AllocatingForm(op, in1, in2, a, gamma, allocFails, runtimeOk) ==
    IF op \in BinaryOps THEN BinaryAllocating(op, in1, in2, allocFails, runtimeOk)
    ELSE IF op = "invert" THEN InvertAllocating(in1, allocFails, runtimeOk)
    ELSE GammaCorrectionAllocating(in1, a, gamma, allocFails, runtimeOk)

\* threadIdx.x == 0
IsTableBuilder(thr) == thr[2] = 0

DInit ==
    /\ \E n \in 1 .. MaxPixels :
         \E data \in [1 .. n -> PixelSamples] :
             dev = [A |-> Buffer(data),
                    B |-> Buffer([i \in 1 .. n |-> IF i % 2 = 1 THEN 250 ELSE 3]),
                    R |-> Buffer(<<>>)]
    /\ dPc = "idle"
    /\ dCall = [op |-> "none"]
    /\ dErr = NoError
    /\ dGrid = [kernel |-> "none"]
    /\ dBefore = <<>>
    /\ tPc = <<>>
    /\ fillI = <<>>
    /\ value = <<>>
    /\ tableWriters = {}
    /\ tableReads = {}

\* the call has run on the host up to its return or its exception; a kernel
\* it launched has all its threads at their first statement
Begin(call, r, d) ==
    /\ dCall' = call
    /\ dErr' = r.err
    /\ dBefore' = d
    /\ UNCHANGED <<tableWriters, tableReads>>
    /\ IF r.err = NoError
       THEN LET grid == r.launches[1]
            IN  /\ dPc' = "launched"
                /\ dev' = d
                /\ dGrid' = grid
                /\ tPc' = [thr \in Threads(grid) |->
                             IF grid.kernel = "gammaCorrection"
                             THEN (IF IsTableBuilder(thr) THEN "fill" ELSE "sync")
                             ELSE "start"]
                /\ fillI' = [thr \in Threads(grid) |-> 0]
                /\ value' = IF grid.kernel = "gammaCorrection"
                            THEN [b \in 0 .. grid.blocksPerGrid - 1 |->
                                     [e \in 0 .. 255 |-> -1]]
                            ELSE <<>>
       ELSE /\ dPc' = "thrown"
            /\ UNCHANGED <<dev, dGrid, tPc, fillI, value>>

DCallInPlace ==
    /\ dPc = "idle"
    /\ UNCHANGED <<kpVars, fVars, cVars>>
    /\ \E op \in DataOps, in1, in2, out \in BufNames,
          a, gamma \in DataParams, rt \in BOOLEAN :
         /\ op \notin BinaryOps => in2 = in1
         /\ op # "gammaCorrection" => a = 2 /\ gamma = 2
         /\ Begin([op |-> op, form |-> "inplace", in1 |-> in1, in2 |-> in2,
                   out |-> out, a |-> a, gamma |-> gamma],
                  InPlaceForm(op, dev[in1], dev[in2], dev[out], a, gamma, rt),
                  dev)

DCallAllocating ==
    /\ dPc = "idle"
    /\ UNCHANGED <<kpVars, fVars, cVars>>
    /\ \E op \in DataOps, in1, in2 \in BufNames, a, gamma \in DataParams,
          al, rt \in BOOLEAN, fill \in FillSamples :
         /\ op \notin BinaryOps => in2 = in1
         /\ op # "gammaCorrection" => a = 2 /\ gamma = 2
         /\ LET r == AllocatingForm(op, dev[in1], dev[in2], a, gamma, al, rt)
                n == ToInt(MulU32(dev[in1].width, dev[in1].height))
            IN  Begin([op |-> op, form |-> "allocating", in1 |-> in1, in2 |-> in2,
                       out |-> "R", a |-> a, gamma |-> gamma],
                      r,
                      IF r.err = NoError
                      THEN [dev EXCEPT !["R"] = Buffer([i \in 1 .. n |-> fill])]
                      ELSE dev)

\* one thread of a kernel other than gammaCorrection runs its body; the body
\* touches element id of its buffers and nothing else, so it is one step
RunThread(thr) ==
    /\ dPc = "launched"
    /\ UNCHANGED <<kpVars, fVars, cVars>>
    /\ dGrid.kernel \in PlainKernels
    /\ tPc[thr] = "start"
    /\ LET id   == ThreadId(thr, dGrid)
           i    == ToInt(id) + 1
           args == KernelArgs(dCall)
       IN  IF InRange(id, dGrid.size)
           THEN dev' = [dev EXCEPT ![args.out].data[i] =
                           KernelResult(dGrid.kernel, dev[args.in1].data[i],
                                        dev[args.in2].data[i])]
           ELSE UNCHANGED dev
    /\ tPc' = [tPc EXCEPT ![thr] = "done"]
    /\ UNCHANGED <<dPc, dCall, dErr, dGrid, dBefore, fillI, value,
                   tableWriters, tableReads>>

\* gammaCorrection: one iteration of the table loop, or its exit
GammaFill(thr) ==
    /\ dPc = "launched"
    /\ UNCHANGED <<kpVars, fVars, cVars>>
    /\ dGrid.kernel = "gammaCorrection"
    /\ tPc[thr] = "fill"
    /\ IF fillI[thr] < 256
       THEN /\ value' = [value EXCEPT ![thr[1]][fillI[thr]] =
                            gammaValue(fillI[thr], dCall.a, dCall.gamma)]
            /\ fillI' = [fillI EXCEPT ![thr] = fillI[thr] + 1]
            /\ tableWriters' = tableWriters \cup {thr}
            /\ UNCHANGED tPc
       ELSE /\ tPc' = [tPc EXCEPT ![thr] = "sync"]
            /\ UNCHANGED <<value, fillI, tableWriters>>
    /\ UNCHANGED <<dVars, tableReads>>

\* gammaCorrection: the thread reaches __syncthreads()
GammaArrive(thr) ==
    /\ dPc = "launched"
    /\ UNCHANGED <<kpVars, fVars, cVars>>
    /\ dGrid.kernel = "gammaCorrection"
    /\ tPc[thr] = "sync"
    /\ tPc' = [tPc EXCEPT ![thr] = "wait"]
    /\ UNCHANGED <<dVars, fillI, value, tableWriters, tableReads>>

Arrived(b) == {thr \in BlockThreads(dGrid, b) : tPc[thr] \in {"wait", "done"}}

\* a kernel without the barrier
BarrierOpen_Missing(b) == TRUE

\* __syncthreads() lets a thread go once every thread of its block has reached it
BarrierOpen(b) == Arrived(b) = BlockThreads(dGrid, b)

\* gammaCorrection: the thread leaves the barrier and runs the guarded lookup
GammaBody(thr) ==
    /\ dPc = "launched"
    /\ UNCHANGED <<kpVars, fVars, cVars>>
    /\ dGrid.kernel = "gammaCorrection"
    /\ tPc[thr] = "wait"
    /\ BarrierOpen(thr[1])
    /\ LET id   == ThreadId(thr, dGrid)
           i    == ToInt(id) + 1
           args == KernelArgs(dCall)
           e    == dev[args.in1].data[i]
       IN  IF InRange(id, dGrid.size)
           THEN /\ \E v \in (IF value[thr[1]][e] = -1 THEN FillSamples
                             ELSE {value[thr[1]][e]}) :
                      dev' = [dev EXCEPT ![args.out].data[i] = v]
                /\ tableReads' = tableReads \cup
                       {[thr |-> thr, entry |-> e,
                         filled |-> fillI[<<thr[1], 0>>],
                         arrived |-> Arrived(thr[1])]}
           ELSE UNCHANGED <<dev, tableReads>>
    /\ tPc' = [tPc EXCEPT ![thr] = "done"]
    /\ UNCHANGED <<dPc, dCall, dErr, dGrid, dBefore, fillI, value, tableWriters>>

InitData == DInit /\ KPOff /\ FOff /\ COff

StepRunThread == \E thr \in DOMAIN tPc : RunThread(thr)

StepGammaFill == \E thr \in DOMAIN tPc : GammaFill(thr)

StepGammaArrive == \E thr \in DOMAIN tPc : GammaArrive(thr)

StepGammaBody == \E thr \in DOMAIN tPc : GammaBody(thr)

NextData ==
    \/ DCallInPlace
    \/ DCallAllocating
    \/ StepRunThread
    \/ StepGammaFill
    \/ StepGammaArrive
    \/ StepGammaBody

SpecData == InitData /\ [][NextData]_vars

KernelDone == dPc = "launched" /\ \A thr \in DOMAIN tPc : tPc[thr] = "done"

\* C6 as stated: after an accepted in-place call every input buffer holds the
\* bytes it held before the call, and only the output buffer has changed.
C6_Claim ==
    (dPc = "launched" /\ dCall.form = "inplace") =>
        /\ \A b \in {dCall.in1, dCall.in2} : dev[b].data = dBefore[b].data
        /\ \A b \in DOMAIN dev : b # dCall.out => dev[b] = dBefore[b]

\* C6 amended: every device buffer other than the output buffer passed by the
\* caller, so every input that is not also the output, holds throughout and
\* after the call the bytes it held before; only the output buffer changes.
C6_Amended ==
    dPc = "launched" =>
        \A b \in DOMAIN dev : b # dCall.out => dev[b] = dBefore[b]

C6_Witness ==
    /\ KernelDone
    /\ dCall.form = "inplace"
    /\ dCall.in1 # dCall.out
    /\ dCall.in2 # dCall.out
    /\ dev[dCall.out].data # dBefore[dCall.out].data

\* C7: Subtract(A, B) is 0 where A[i] <= B[i] and A[i] - B[i] elsewhere, so
\* always within [0, 255].
C7_SubtractSaturates ==
    (KernelDone /\ dCall.op = "subtract") =>
        LET A == dBefore[dCall.in1].data
            B == dBefore[dCall.in2].data
            R == dev[dCall.out].data
        IN  /\ Len(R) = Len(A)
            /\ \A i \in 1 .. Len(A) :
                   /\ R[i] \in 0 .. 255
                   /\ R[i] = IF A[i] <= B[i] THEN 0 ELSE A[i] - B[i]

C7_Witness ==
    /\ KernelDone
    /\ dCall.op = "subtract"
    /\ dCall.form = "allocating"
    /\ \E i, j \in 1 .. Len(dBefore[dCall.in1].data) :
           /\ dBefore[dCall.in1].data[i] < dBefore[dCall.in2].data[i]
           /\ dBefore[dCall.in1].data[j] > dBefore[dCall.in2].data[j]
           /\ dev["R"].data[i] = 0
           /\ dev["R"].data[j] > 0

\* C8: in every block of gammaCorrection the table is written only by the
\* thread with threadIdx.x = 0, and whenever a thread reads an entry that
\* thread has written all 256 entries and every thread of the block has
\* reached the barrier.
C8_TableHandoff ==
    /\ \A w \in tableWriters : w[2] = 0
    /\ \A r \in tableReads :
           /\ r.filled = 256
           /\ r.arrived = BlockThreads(dGrid, r.thr[1])

C8_Witness ==
    /\ KernelDone
    /\ dGrid.kernel = "gammaCorrection"
    /\ dGrid.threadsPerBlock >= 2
    /\ \E r \in tableReads : r.thr[2] # 0
    /\ \A thr \in DOMAIN tPc : \E r \in tableReads : r.thr = thr

----------------------------------------------------------------------------
(* The grids the facade launches for images of a few hundred pixels         *)

GridShapes == {<<1, 15>>, <<15, 17>>, <<16, 16>>, <<257, 1>>, <<16, 32>>,
               <<19, 27>>}
GridImageSamples ==
    {ImageCuda(Zero, Zero)}
    \cup {ImageCuda(FromInt(wh[1]), FromInt(wh[2])) : wh \in GridShapes}

InitGrid ==
    /\ fImages = GridImageSamples
    /\ fPc = "idle"
    /\ fCall = [op |-> "none"]
    /\ fErr = NoError
    /\ fAllocs = 0
    /\ fLaunches = <<>>
    /\ KPOff
    /\ DOff
    /\ COff

SpecGrid == InitGrid /\ [][NextFacade]_vars

\* C9: in every kernel launched with the configuration of
\* getKernelParameters(n), distinct threads have distinct linear ids, a
\* thread with id >= n touches no buffer element, and every index in [0, n)
\* is written by exactly one thread.
C9_OneThreadPerElement ==
    \A k \in DOMAIN fLaunches :
        fLaunches[k].ok =>
            LET g  == fLaunches[k]
                W  == {thr \in Threads(g) : ThreadAccess(thr, g) # {}}
            IN  /\ Cardinality({ThreadId(thr, g) : thr \in Threads(g)})
                       = Cardinality(Threads(g))
                /\ \A thr \in Threads(g) :
                       ~LtU32(ThreadId(thr, g), g.size) => ThreadAccess(thr, g) = {}
                /\ UNION {ThreadAccess(thr, g) : thr \in W}
                       = {FromInt(i) : i \in 0 .. ToInt(g.size) - 1}
                /\ Cardinality(W) = ToInt(g.size)

C9_Witness ==
    /\ fPc = "returned"
    /\ fCall.form = "inplace"
    /\ \E k \in DOMAIN fLaunches :
           /\ fLaunches[k].ok
           /\ fLaunches[k].blocksPerGrid >= 2
           /\ fLaunches[k].size = U32(0, 513)
           /\ fLaunches[k].threadsPerBlock * fLaunches[k].blocksPerGrid > 513

----------------------------------------------------------------------------
(* Convert: host image -> device image and device image -> host image       *)

MaxWidth == 2

MaxHeight == 3

TransferToDeviceFailed   == "Cannot copy a memory to CUDA device"
TransferFromDeviceFailed == "Cannot copy a memory from CUDA device"

\* a host image: rows of width pixels, rowSize bytes apart
HostImage(width, height, rowSize, data) ==
    [width |-> FromInt(width), height |-> FromInt(height),
     rowSize |-> FromInt(rowSize), data |-> data]

\* a device image: width * height bytes, rows width bytes apart
DeviceImage(width, height, data) ==
    [width |-> FromInt(width), height |-> FromInt(height), data |-> data]

\* Image_Function::ParameterValidation( image ) for a host image
HostParameterValidation(image) == ~empty(image)

\* the loop variables of Convert( host in, device out ) before its first test
ToDeviceSetup_NoStride(in, out) ==
    [dir |-> "toDevice", width |-> ToInt(out.width),
     rowSizeIn |-> ToInt(in.width), rowSizeOut |-> ToInt(out.width),
     Y |-> 0, YEnd |-> ToInt(MulU32(in.height, in.width)), cudaY |-> 0]

ToDeviceSetup(in, out) ==
    [dir |-> "toDevice", width |-> ToInt(out.width),
     rowSizeIn |-> ToInt(in.rowSize), rowSizeOut |-> ToInt(out.width),
     Y |-> 0, YEnd |-> ToInt(MulU32(in.height, in.rowSize)), cudaY |-> 0]

\* the loop variables of Convert( device in, host out ) before its first test
ToHostSetup(in, out) ==
    [dir |-> "toHost", width |-> ToInt(in.width),
     rowSizeIn |-> ToInt(in.width), rowSizeOut |-> ToInt(out.rowSize),
     Y |-> 0, YEnd |-> ToInt(MulU32(out.height, out.rowSize)), cudaY |-> 0]

\* a loop that does not look at the status of cudaMemcpy
CopyFailed_Ignored(ok) == FALSE

\* if( error != cudaSuccess )
CopyFailed(ok) == ~ok

\* dst with count bytes of src copied, from offset s of src to offset d of dst
Memcpy(dst, d, src, s, count) ==
    [k \in 1 .. Len(dst) |->
        IF k - d \in 1 .. count THEN src[s + (k - d)] ELSE dst[k]]

CInit ==
    /\ \E w \in 1 .. MaxWidth, h \in 1 .. MaxHeight, pad1, pad2 \in {0, 1},
          dw \in 0 .. MaxWidth + 1 :
         /\ dw \in {0, w, w + 1}
         /\ host = [H  |-> HostImage(w, h, w + pad1,
                                     [k \in 1 .. (w + pad1) * h |-> 100 + k]),
                    H2 |-> HostImage(w, h, w + pad2,
                                     [k \in 1 .. (w + pad2) * h |-> 0])]
         /\ device = IF dw = 0 THEN DeviceImage(0, 0, <<>>)
                     ELSE DeviceImage(dw, h, [k \in 1 .. dw * h |-> 0])
    /\ cPc = "idle"
    /\ cv = [dir |-> "none"]
    /\ cCopies = <<>>
    /\ cLast = <<>>

\* the outcomes of the last two finished calls, latest last
Finished(dir, err) ==
    LET e == [dir |-> dir, err |-> err]
    IN  cLast' = IF Len(cLast) < 2 THEN Append(cLast, e) ELSE <<cLast[2], e>>

\* Convert( in, out ), host to device: validation and loop set-up
ConvertToDeviceBegin ==
    /\ cPc = "idle"
    /\ UNCHANGED <<kpVars, fVars, dVars, tVars>>
    /\ cCopies' = <<>>
    /\ UNCHANGED <<host, device>>
    /\ LET in  == host["H"]
           out == device
       IN  IF \/ ~HostParameterValidation(in)
              \/ ~ParameterValidation1(out)
              \/ in.width # out.width
              \/ in.height # out.height
           THEN /\ Finished("toDevice", BadParameters)
                /\ cv' = [dir |-> "toDevice"]
                /\ UNCHANGED cPc
           ELSE /\ cv' = ToDeviceSetup(in, out)
                /\ cPc' = "loop"
                /\ UNCHANGED cLast

\* Convert( in, out ), device to host: validation and loop set-up
ConvertToHostBegin ==
    /\ cPc = "idle"
    /\ UNCHANGED <<kpVars, fVars, dVars, tVars>>
    /\ cCopies' = <<>>
    /\ UNCHANGED <<host, device>>
    /\ LET in  == device
           out == host["H2"]
       IN  IF \/ ~ParameterValidation1(in)
              \/ ~HostParameterValidation(out)
              \/ in.width # out.width
              \/ in.height # out.height
           THEN /\ Finished("toHost", BadParameters)
                /\ cv' = [dir |-> "toHost"]
                /\ UNCHANGED cPc
           ELSE /\ cv' = ToHostSetup(in, out)
                /\ cPc' = "loop"
                /\ UNCHANGED cLast

\* the loop test of either Convert, and one pass through its body: a
\* cudaMemcpy of one row, which succeeds, or fails having copied part bytes
ConvertRow ==
    /\ cPc = "loop"
    /\ UNCHANGED <<kpVars, fVars, dVars, tVars>>
    /\ IF cv.Y = cv.YEnd
       THEN /\ cPc' = "idle"
            /\ Finished(cv.dir, NoError)
            /\ UNCHANGED <<host, device, cv, cCopies>>
       ELSE \E ok \in BOOLEAN, part \in 0 .. cv.width - 1 :
              LET count == IF ok THEN cv.width ELSE part
              IN  /\ ok => part = 0
                  /\ IF cv.dir = "toDevice"
                     THEN /\ device' = [device EXCEPT !.data =
                                Memcpy(device.data, cv.cudaY, host["H"].data,
                                       cv.Y, count)]
                          /\ UNCHANGED host
                     ELSE /\ host' = [host EXCEPT !["H2"].data =
                                Memcpy(host["H2"].data, cv.Y, device.data,
                                       cv.cudaY, count)]
                          /\ UNCHANGED device
                  /\ cCopies' = Append(cCopies,
                         [host |-> cv.Y, device |-> cv.cudaY,
                          bytes |-> cv.width, ok |-> ok])
                  /\ IF CopyFailed(ok)
                     THEN /\ cPc' = "idle"
                          /\ Finished(cv.dir,
                                      IF cv.dir = "toDevice"
                                      THEN TransferToDeviceFailed
                                      ELSE TransferFromDeviceFailed)
                          /\ UNCHANGED cv
                     ELSE /\ cv' = [cv EXCEPT !.Y = cv.Y
                                                 + (IF cv.dir = "toDevice"
                                                    THEN cv.rowSizeIn
                                                    ELSE cv.rowSizeOut),
                                              !.cudaY = cv.cudaY
                                                 + (IF cv.dir = "toDevice"
                                                    THEN cv.rowSizeOut
                                                    ELSE cv.rowSizeIn)]
                          /\ UNCHANGED <<cPc, cLast>>

InitConvert == CInit /\ KPOff /\ FOff /\ DOff

NextConvert ==
    \/ ConvertToDeviceBegin
    \/ ConvertToHostBegin
    \/ ConvertRow

SpecConvert == InitConvert /\ [][NextConvert]_vars

\* pixel (r, c) of an image whose rows are stride bytes apart
PixelAt(data, stride, r, c) == data[r * stride + c + 1]

LastCall == cLast[Len(cLast)]

Ok(dir) == [dir |-> dir, err |-> NoError]

RoundTripDone ==
    /\ cPc = "idle"
    /\ cLast = <<Ok("toDevice"), Ok("toHost")>>

\* C4: after Convert(H, D) with every row copied the device buffer holds the
\* width * height pixels of H, row r at offset r * width, with no padding;
\* after Convert(D, H2) as well, every pixel (r, c) of H2 equals that of H,
\* whatever the row sizes of H and H2.
C4_RoundTrip ==
    LET H  == host["H"]
        H2 == host["H2"]
        w  == ToInt(H.width)
        h  == ToInt(H.height)
    IN  /\ (cPc = "idle" /\ cLast # <<>> /\ LastCall = Ok("toDevice")) =>
               /\ Len(device.data) = w * h
               /\ \A r \in 0 .. h - 1, c \in 0 .. w - 1 :
                      PixelAt(device.data, w, r, c)
                          = PixelAt(H.data, ToInt(H.rowSize), r, c)
        /\ RoundTripDone =>
               \A r \in 0 .. h - 1, c \in 0 .. w - 1 :
                   PixelAt(H2.data, ToInt(H2.rowSize), r, c)
                       = PixelAt(H.data, ToInt(H.rowSize), r, c)

C4_Witness ==
    /\ RoundTripDone
    /\ host["H"].rowSize # host["H"].width
    /\ host["H2"].rowSize = host["H2"].width
    /\ host["H"].width = FromInt(2)
    /\ host["H"].height = FromInt(3)
    /\ PixelAt(host["H2"].data, 2, 2, 1) = PixelAt(host["H"].data, 3, 2, 1)

\* C5: the rows are copied one at a time in increasing order; the first copy
\* to fail ends the call with the transfer exception, no later row is
\* copied, and the rows before it keep the bytes copied into them.
C5_RowByRow ==
    LET toDevice == cv.dir = "toDevice"
        stride   == ToInt(IF toDevice THEN host["H"].rowSize
                          ELSE host["H2"].rowSize)
        w        == ToInt(device.width)
    IN  \A i \in DOMAIN cCopies :
            /\ cCopies[i].host = (i - 1) * stride
            /\ cCopies[i].device = (i - 1) * w
            /\ cCopies[i].bytes = w
            /\ ~cCopies[i].ok =>
                   /\ i = Len(cCopies)
                   /\ cPc = "idle"
                   /\ LastCall = [dir |-> cv.dir,
                                  err |-> IF toDevice THEN TransferToDeviceFailed
                                          ELSE TransferFromDeviceFailed]
                   /\ \A r \in 0 .. i - 2, c \in 0 .. w - 1 :
                          IF toDevice
                          THEN PixelAt(device.data, w, r, c)
                                   = PixelAt(host["H"].data, stride, r, c)
                          ELSE PixelAt(host["H2"].data, stride, r, c)
                                   = PixelAt(device.data, w, r, c)

C5_Witness ==
    /\ cPc = "idle"
    /\ cv.dir = "toDevice"
    /\ host["H"].height = FromInt(3)
    /\ Len(cCopies) = 2
    /\ ~cCopies[2].ok
    /\ PixelAt(device.data, ToInt(device.width), 0, 0) = host["H"].data[1]
    /\ PixelAt(device.data, ToInt(device.width), 2, 0) = 0
====
